---- MODULE Spec2Model ----
(***************************************************************************)
(* Vintage-cohort decomposition of powerplantmatching/heuristics.py:       *)
(* derive_vintage_cohorts_from_statistics and its nested helpers           *)
(* setInitial_Flat, setInitial_Triangle, setHistorical and reduceVintages, *)
(* for one (Country, Technology) group.                                    *)
(*                                                                         *)
(* The ledger `mat` is a pandas DataFrame of floats created all-NaN.  It   *)
(* is modelled as a partial function on <<vintage, calendar year>> cells:  *)
(* a cell outside DOMAIN mat is NaN (never written).  `index` is the row   *)
(* index in its pandas order, `columns` the column labels.                 *)
(*                                                                         *)
(* Capacities are integers.  The first statistic of every series is a      *)
(* multiple of life*life, so that the divisions of setInitial_Flat and     *)
(* setInitial_Triangle are exact and \div computes what the float          *)
(* division computes.                                                      *)
(***************************************************************************)
EXTENDS Integers, Sequences, FiniteSets, TLC

VARIABLES stats, life, fueltype, index, columns, mat, pc, err,
          y, year, addition, pos, matAtCall, additionAtCall,
          base_year, rows

\* stats, life, fueltype : the group's statistics (rows in the order they
\*     arrive), its lifetime from fueltype_to_life() and its fuel type
\* index, columns, mat    : the ledger frame
\* pc, err                : the control position and the exception raised
\* y                      : loop variable of setInitial_*
\* year                   : loop variable of setHistorical (y_pres in the reducer)
\* addition, pos          : reduceVintages' running addition and loop position
\* matAtCall, additionAtCall : the arguments reduceVintages was last called with
\* base_year, rows        : the base_year argument and the rows emitted
vars == <<stats, life, fueltype, index, columns, mat, pc, err,
          y, year, addition, pos, matAtCall, additionAtCall,
          base_year, rows>>

(* ------------------------------ bounds -------------------------------- *)
MaxLife == 3
MaxSpan == 3
MaxCap == 2

(* ----------------------------- helpers -------------------------------- *)
Min(a, b) == IF a <= b THEN a ELSE b

Abs(a) == IF a < 0 THEN -a ELSE a

\* range(a, b) of Python as a sequence: a, a+1, ..., b-1
Range(a, b) == [n \in 1..(IF b > a THEN b - a ELSE 0) |-> a + n - 1]

Elems(s) == {s[n] : n \in DOMAIN s}

\* df.index: the Year column of the group, in row order
Years(st) == [n \in DOMAIN st |-> st[n].Year]

\* df.index.max()
IndexMax(st) == CHOOSE m \in Elems(Years(st)) : \A z \in Elems(Years(st)) : z <= m

\* df.loc[yr].Capacity for a year that is in df.index
CapacityAt(st, yr) == st[CHOOSE n \in DOMAIN st : st[n].Year = yr].Capacity

\* Fuel types whose pre-history is a triangle (line 292); all others are flat
TriangleFuels == {"Solar", "Wind", "Bioenergy", "Geothermal"}

(* ------------------------------ ledger -------------------------------- *)
\* the all-NaN frame of line 290: no cell is set
EmptyMat == [p \in {} |-> 0]

IsSet(m, v, c) == <<v, c>> \in DOMAIN m

WindowEndOneLate(v, L) == v + L

\* last calendar year a vintage built in v is written for: v+life-1 in
\* lines 237, 250, 260, 262, 265, 276 and 279
WindowEnd(v, L) == v + L - 1

\* mat.loc[v, from:to] = val : a label slice, both ends included, clipped to
\* the existing columns
LocSet(m, cols, v, from, to, val) ==
    LET cells == {<<v, c>> : c \in (from..to) \cap cols}
    IN  [p \in (DOMAIN m) \cup cells |-> IF p \in cells THEN val ELSE m[p]]

\* setting a row whose label is missing enlarges the index at its end
Enlarge(idx, v) == IF v \in Elems(idx) THEN idx ELSE Append(idx, v)

RECURSIVE SumCells(_, _)
SumCells(m, S) ==
    IF S = {} THEN 0
    ELSE LET p == CHOOSE q \in S : TRUE
         IN  m[p] + SumCells(m, S \ {p})

\* mat.loc[:, c].sum() : NaN cells are skipped, and a column with no set cell
\* sums to 0 (the pandas default, min_count=0)
ColumnSum(m, c) == SumCells(m, {p \in DOMAIN m : p[2] = c})

(* ----------------------- initial distribution ------------------------- *)
HeightFlatOneShort(c0, L) == c0 \div (L + 1)

\* setInitial_Flat, line 235
HeightFlat(c0, L) == c0 \div L

\* setInitial_Triangle, lines 244-248: dic[v] for a pre-history vintage v
TriangleValue(c0, L, y_start, v) ==
    LET height_flat == c0 \div L
        decr        == (2 * height_flat) \div L
        height_tri  == 2 * height_flat - decr \div 2
    IN  height_tri - (y_start - v) * decr

InitialValue(fuel, c0, L, y_start, v) ==
    IF fuel \in TriangleFuels THEN TriangleValue(c0, L, y_start, v)
                              ELSE HeightFlat(c0, L)

(* --------------------------- forward walk ----------------------------- *)
AdditionSwapped(cap, survivors) == survivors - cap

\* setHistorical, line 258
Addition(cap, survivors) == cap - survivors

(* ----------------------------- reduction ------------------------------ *)
NewestFirst(idx, n) == idx[Len(idx) + 1 - n]

\* reduceVintages, line 270: the n-th vintage the loop visits
VintageAt(idx, n) == idx[n]

ExceedsReversed(add, val_rem) == Abs(add) < val_rem

\* reduceVintages, line 275: the deficit is larger than what the vintage holds
Exceeds(add, val_rem) == Abs(add) > val_rem

\* setHistorical, line 255: the year the walk starts at
WalkStart(st) == Years(st)[2]

(* ------------------------------ output -------------------------------- *)
\* lines 299-305 and 308: one row per index entry whose base_year cell is > 0
RECURSIVE OutputRows(_, _, _)
OutputRows(m, idx, b) ==
    IF idx = <<>> THEN <<>>
    ELSE LET v    == Head(idx)
             rest == OutputRows(m, Tail(idx), b)
         IN  IF IsSet(m, v, b) /\ m[<<v, b>>] > 0
             THEN <<[YearCommissioned |-> v, Capacity |-> m[<<v, b>>]]>> \o rest
             ELSE rest

(* ------------------------------ inputs -------------------------------- *)
CapValues(L) == {u * L * L : u \in (-1)..MaxCap}

\* every strictly increasing series that starts in 2000 and spans MaxSpan years
SortedSeries(L) ==
    UNION {
      {st \in [1..n -> [Year : 2000..(2000 + MaxSpan), Capacity : CapValues(L)]] :
          /\ st[1].Year = 2000
          /\ \A a \in 1..(n - 1) : st[a].Year < st[a + 1].Year}
      : n \in 1..(MaxSpan + 1)}

\* two-point series given in decreasing year order
SwappedSeries(L) ==
    {<<[Year |-> 2000 + d, Capacity |-> c1], [Year |-> 2000, Capacity |-> c2]>> :
        d \in 1..MaxSpan, c1 \in CapValues(L), c2 \in CapValues(L)}

\* the growth scenario: {2000: 100, 2001: 120} with a lifetime of 10 years
GrowthSeries == <<[Year |-> 2000, Capacity |-> 100], [Year |-> 2001, Capacity |-> 120]>>

\* the values base_year is drawn from: one year beyond the ledger on each side
BaseYears(st, L) ==
    LET ys == Elems(Years(st))
        lo == CHOOSE a \in ys : \A z \in ys : a <= z
    IN  (lo - L)..(IndexMax(st) + L)

Sorted(st) == \A a \in 1..(Len(st) - 1) : st[a].Year < st[a + 1].Year

NonNegative(st) == \A n \in DOMAIN st : st[n].Capacity >= 0

(* ------------------------------- Init --------------------------------- *)
Init ==
    /\ \/ /\ life \in 1..MaxLife
          /\ stats \in SortedSeries(life) \cup SwappedSeries(life)
       \/ /\ life = 10
          /\ stats = GrowthSeries
    /\ fueltype \in {"Wind", "Hard Coal"}
    /\ index = <<>>
    /\ columns = {}
    /\ mat = EmptyMat
    /\ pc = "create"
    /\ err = "none"
    /\ y = 0
    /\ year = 0
    /\ addition = 0
    /\ pos = 0
    /\ matAtCall = EmptyMat
    /\ additionAtCall = 0
    /\ base_year = 0
    /\ rows = <<>>

y_start == Years(stats)[1]
y_end == Years(stats)[Len(stats)]

(* ------------------------------ actions ------------------------------- *)
\* lines 286-295: the frame is created and setInitial_* is entered; its loop
\* range starts at mat.index[0], an IndexError on an empty index
Create ==
    /\ pc = "create"
    /\ index' = Range(y_start - life + 1, y_end)
    /\ columns' = Elems(Range(y_start - life + 1, y_end + life))
    /\ IF index' = <<>>
       THEN /\ pc' = "error"
            /\ err' = "IndexError"
            /\ y' = y
       ELSE /\ pc' = "setInitial"
            /\ err' = err
            /\ y' = index'[1]
    /\ UNCHANGED <<stats, life, fueltype, mat, year, addition, pos,
                   matAtCall, additionAtCall, base_year, rows>>

\* one iteration of the loop of setInitial_Flat / setInitial_Triangle
SetInitialStep ==
    /\ pc = "setInitial"
    /\ y <= y_start
    /\ LET last  == CHOOSE c \in columns : \A z \in columns : z <= c
           y_to  == Min(WindowEnd(y, life), last)
           value == InitialValue(fueltype, CapacityAt(stats, y_start), life, y_start, y)
       IN  /\ mat' = LocSet(mat, columns, y, y, y_to, value)
           /\ index' = Enlarge(index, y)
    /\ y' = y + 1
    /\ UNCHANGED <<stats, life, fueltype, columns, pc, err, year, addition, pos,
                   matAtCall, additionAtCall, base_year, rows>>

\* setInitial_* returns; line 296 enters setHistorical only if y_end > y_start
SetInitialReturn ==
    /\ pc = "setInitial"
    /\ y > y_start
    /\ IF y_end > y_start
       THEN /\ pc' = "setHistorical"
            /\ year' = WalkStart(stats)
       ELSE /\ pc' = "assemble"
            /\ year' = year
    /\ UNCHANGED <<stats, life, fueltype, index, columns, mat, err, y, addition,
                   pos, matAtCall, additionAtCall, base_year, rows>>

\* one iteration of the while loop of setHistorical, up to the call of
\* reduceVintages when the addition is negative
SetHistoricalStep ==
    /\ pc = "setHistorical"
    /\ year <= IndexMax(stats)
    /\ IF year \in Elems(Years(stats))
       THEN IF year \notin columns
            THEN /\ pc' = "error"
                 /\ err' = "KeyError"
                 /\ UNCHANGED <<mat, index, year, addition, pos, matAtCall, additionAtCall>>
            ELSE LET add == Addition(CapacityAt(stats, year), ColumnSum(mat, year))
                 IN  IF add >= 0
                     THEN /\ mat' = LocSet(mat, columns, year, year, WindowEnd(year, life), add)
                          /\ index' = Enlarge(index, year)
                          /\ year' = year + 1
                          /\ UNCHANGED <<pc, err, addition, pos, matAtCall, additionAtCall>>
                     ELSE /\ mat' = LocSet(mat, columns, year, year, WindowEnd(year, life), 0)
                          /\ index' = Enlarge(index, year)
                          /\ pc' = "reduceVintages"
                          /\ addition' = add
                          /\ pos' = 1
                          /\ matAtCall' = mat'
                          /\ additionAtCall' = add
                          /\ UNCHANGED <<err, year>>
       ELSE /\ mat' = LocSet(mat, columns, year, year, WindowEnd(year, life), 0)
            /\ index' = Enlarge(index, year)
            /\ year' = year + 1
            /\ UNCHANGED <<pc, err, addition, pos, matAtCall, additionAtCall>>
    /\ UNCHANGED <<stats, life, fueltype, columns, y, base_year, rows>>

\* the while loop of setHistorical ends
SetHistoricalReturn ==
    /\ pc = "setHistorical"
    /\ year > IndexMax(stats)
    /\ pc' = "assemble"
    /\ UNCHANGED <<stats, life, fueltype, index, columns, mat, err, y, year,
                   addition, pos, matAtCall, additionAtCall, base_year, rows>>

\* one iteration of the for loop of reduceVintages (y_pres is `year`); the
\* break returns to setHistorical, which steps to the next year
ReduceStep ==
    /\ pc = "reduceVintages"
    /\ pos <= Len(index)
    /\ LET v == VintageAt(index, pos)
       IN  IF IsSet(mat, v, year) /\ mat[<<v, year>>] > 0
           THEN LET val_rem == mat[<<v, year>>]
                IN  IF Exceeds(addition, val_rem)
                    THEN /\ mat' = LocSet(mat, columns, v, year, WindowEnd(v, life), 0)
                         /\ addition' = addition + val_rem
                         /\ pos' = pos + 1
                         /\ UNCHANGED <<pc, year>>
                    ELSE /\ mat' = LocSet(mat, columns, v, year, WindowEnd(v, life),
                                          val_rem + addition)
                         /\ pc' = "setHistorical"
                         /\ year' = year + 1
                         /\ UNCHANGED <<addition, pos>>
           ELSE /\ pos' = pos + 1
                /\ UNCHANGED <<mat, addition, pc, year>>
    /\ UNCHANGED <<stats, life, fueltype, index, columns, err, y,
                   matAtCall, additionAtCall, base_year, rows>>

\* the for loop of reduceVintages runs out of vintages: line 281 returns mat
ReduceExhausted ==
    /\ pc = "reduceVintages"
    /\ pos > Len(index)
    /\ pc' = "setHistorical"
    /\ year' = year + 1
    /\ UNCHANGED <<stats, life, fueltype, index, columns, mat, err, y, addition,
                   pos, matAtCall, additionAtCall, base_year, rows>>

\* lines 298-308: the base_year column is read (a KeyError if it is no column)
\* and the rows with a positive, not-close-to-zero capacity are kept
Assemble ==
    /\ pc = "assemble"
    /\ \E b \in BaseYears(stats, life) :
         /\ base_year' = b
         /\ IF b \in columns
            THEN /\ rows' = OutputRows(mat, index, b)
                 /\ pc' = "done"
                 /\ err' = err
            ELSE /\ rows' = rows
                 /\ pc' = "error"
                 /\ err' = "KeyError"
    /\ UNCHANGED <<stats, life, fueltype, index, columns, mat, y, year, addition,
                   pos, matAtCall, additionAtCall>>

Next ==
    \/ Create
    \/ SetInitialStep
    \/ SetInitialReturn
    \/ SetHistoricalStep
    \/ SetHistoricalReturn
    \/ ReduceStep
    \/ ReduceExhausted
    \/ Assemble

Spec == Init /\ [][Next]_vars

(* ------------------------------ properties ---------------------------- *)
\* the series is one the data model admits: strictly increasing years
\* and non-negative capacities
ValidSeries == Sorted(stats) /\ NonNegative(stats)

\* reduceVintages has been called at least once in this run
ReducerWasCalled == additionAtCall < 0

\* the calendar year yr has been reconciled: the initial distribution is
\* complete for Y0, the walk has passed yr, or the ledger is final
Reconciled(yr) ==
    \/ pc = "setInitial" /\ y > y_start /\ yr = y_start
    \/ pc \in {"setHistorical", "reduceVintages"} /\ yr < year
    \/ pc \in {"assemble", "done"}
    \/ pc = "error" /\ err = "KeyError"

\* C1: reconciliation invariant.  For a strictly increasing series of
\* non-negative statistics, once the initial distribution is complete and
\* after every forward step, the ledger's survivor sum at every observed
\* year up to the current one equals the observed capacity, and this still
\* holds for every observed year in the final ledger.
C1_Reconciliation ==
    ValidSeries =>
        \A n \in DOMAIN stats :
            Reconciled(stats[n].Year) =>
                ColumnSum(mat, stats[n].Year) = stats[n].Capacity

C1_Witness ==
    /\ ValidSeries
    /\ pc = "done"
    /\ Len(stats) >= 3
    /\ ReducerWasCalled
    /\ \E n \in 2..Len(stats) : IsSet(mat, stats[n].Year, stats[n].Year)
                                /\ mat[<<stats[n].Year, stats[n].Year>>] > 0

\* C2: non-negativity.  Given non-negative statistics, in every state of the
\* initial distribution, the forward walk and a reduction, no ledger cell
\* is negative (the built capacity of a vintage is its cell at its own year).
C2_NonNegativeLedger ==
    NonNegative(stats) => \A p \in DOMAIN mat : mat[p] >= 0

C2_Witness ==
    /\ NonNegative(stats)
    /\ pc = "reduceVintages"
    /\ pos > 1
    /\ addition # additionAtCall
    /\ \E p \in DOMAIN mat : mat[p] > 0

\* C3: window invariant.  In every reachable ledger state a vintage of year v
\* holds nothing (zero or unset) at any calendar year outside [v, v+life-1].
C3_Window ==
    \A p \in DOMAIN mat :
        mat[p] # 0 => (p[1] <= p[2] /\ p[2] <= p[1] + life - 1)

C3_Witness ==
    /\ pc = "done"
    /\ ReducerWasCalled
    /\ \E p \in DOMAIN mat : mat[p] > 0 /\ p[2] = p[1] + life - 1 /\ p[1] > y_start

\* C4: a deficit the reducer cannot absorb ends the run in an error.  When
\* the loop of reduceVintages has visited every vintage and a deficit
\* remains (addition < 0), the next step is the error outcome.
C4_ExhaustedIsError ==
    [][(pc = "reduceVintages" /\ pos > Len(index) /\ addition < 0) => pc' = "error"]_vars

\* C5: a series that is not in strictly increasing calendar-year order is
\* rejected before any ledger cell is written, and yields no output rows.
C5_UnsortedRejected ==
    (NonNegative(stats) /\ ~Sorted(stats)) => (DOMAIN mat = {} /\ rows = <<>>)

GrowthScenario == stats = GrowthSeries /\ life = 10

\* C6 as stated: in the growth scenario {2000: 100, 2001: 120}, life 10, the
\* survivor sum at 2001 before reconciliation is 100 and the vintage created
\* at 2001 has built capacity 20.
C6_GrowthAsStated ==
    GrowthScenario =>
        /\ (pc = "setHistorical" /\ year = 2001) => ColumnSum(mat, 2001) = 100
        /\ pc = "assemble" => mat[<<2001, 2001>>] = 20

\* C6 amended: in the growth scenario the oldest pre-history vintage, 1991,
\* has left its window by 2001, so the survivor sum at 2001 before
\* reconciliation is 90 in flat mode (99 in triangle mode) and the vintage
\* created at 2001 has built capacity 30 (21 in triangle mode).
C6_GrowthAmended ==
    GrowthScenario =>
        LET before == IF fueltype \in TriangleFuels THEN 99 ELSE 90
        IN  /\ (pc = "setHistorical" /\ year = 2001) => ColumnSum(mat, 2001) = before
            /\ pc = "assemble" => (IsSet(mat, 2001, 2001) /\ mat[<<2001, 2001>>] = 120 - before)

C6_Witness ==
    GrowthScenario /\ pc = "assemble" /\ IsSet(mat, 2001, 2001) /\ ~IsSet(mat, 1991, 2001)

\* the calendar years after Y0 up to Yn that have no observed statistic
GapYears == ((y_start + 1)..y_end) \ Elems(Years(stats))

\* C7: gap years.  For a valid series, every gap year g with Y0 < g <= Yn
\* is visited by the forward walk, which records a new build of zero for
\* vintage g: in the ledger the walk leaves, the cell of vintage g at year g
\* is set and is zero.
C7_GapYearsRecordZero ==
    (ValidSeries /\ pc = "assemble") =>
        \A g \in GapYears : IsSet(mat, g, g) /\ mat[<<g, g>>] = 0

\* the capacity built in vintage v: the value its row was created with, which
\* stays in the cell of its own year (a reduction at y_pres only rewrites
\* cells of older rows from y_pres on)
IsBuilt(v) == IsSet(mat, v, v) /\ mat[<<v, v>>] > 0

\* C8: output rows carry built capacity.  Every vintage with a non-negligible
\* built capacity has exactly one output row, whose capacity is that built
\* capacity; only vintages with zero built capacity have none.
C8_RowsCarryBuiltCapacity ==
    (ValidSeries /\ pc = "done") =>
        \A v \in Elems(index) :
            LET mine == {n \in DOMAIN rows : rows[n].YearCommissioned = v}
            IN  IF IsBuilt(v)
                THEN Cardinality(mine) = 1
                     /\ \A n \in mine : rows[n].Capacity = mat[<<v, v>>]
                ELSE mine = {}

RECURSIVE RowSum(_)
RowSum(r) == IF r = <<>> THEN 0 ELSE Head(r).Capacity + RowSum(Tail(r))

\* C9: projection to an arbitrary target year.  For every target year T given
\* as base_year, also one before Y0-life+1 or after Yn+life-1, the run ends
\* without an error and the capacities of the emitted rows add up to the
\* survivor sum of the ledger at T (zero, with no rows, outside every window).
C9_ProjectionAnyYear ==
    (ValidSeries /\ (pc = "done" \/ (pc = "error" /\ err = "KeyError"))) =>
        /\ pc = "done"
        /\ RowSum(rows) = ColumnSum(mat, base_year)

\* a cell that contributes nothing: unset or zero
Nothing(m, v, c) == ~IsSet(m, v, c) \/ m[<<v, c>>] = 0

\* what vintage v holds at year c, an unset cell counting as nothing
Held(m, v, c) == IF IsSet(m, v, c) THEN m[<<v, c>>] ELSE 0

RECURSIVE SumHeld(_, _, _)
SumHeld(m, V, c) ==
    IF V = {} THEN 0
    ELSE LET v == CHOOSE w \in V : TRUE
         IN  Held(m, v, c) + SumHeld(m, V \ {v}, c)

\* the ledger m1 is the ledger m0 after an oldest-first reduction of the
\* deficit D at year yp with cut vintage k
CutAt(m0, m1, D, yp, k) ==
    LET older     == {v \in Elems(index) : v < k}
        remaining == D - SumHeld(m0, older, yp)
    IN  /\ DOMAIN m1 = DOMAIN m0
        /\ \A v \in older : \A c \in yp..(v + life - 1) : Nothing(m1, v, c)
        /\ IsSet(m0, k, yp)
        /\ remaining > 0
        /\ \A c \in yp..(k + life - 1) : m1[<<k, c>>] = m0[<<k, yp>>] - remaining
        /\ \A p \in DOMAIN m0 : p[1] > k => m1[p] = m0[p]
        /\ \A p \in DOMAIN m0 : p[2] < yp => m1[p] = m0[p]
        /\ ColumnSum(m0, yp) - ColumnSum(m1, yp) = D

\* C10: oldest-first reduction.  When the forward step at an observed year y
\* finds a deficit D > 0 (statistics non-negative, as the data model requires),
\* then on the return of the reducer there is a cut vintage k: every older
\* vintage holds nothing at y and at the later years of its window, k holds
\* its previous value at y minus the remaining deficit from y to its window
\* end, newer vintages and the years before y are unchanged, and the survivor
\* sum at y has dropped by exactly D.
C10_OldestFirst ==
    [][(NonNegative(stats) /\ pc = "reduceVintages" /\ pc' = "setHistorical") =>
          \E k \in Elems(index) : CutAt(matAtCall, mat', -additionAtCall, year, k)]_vars

C10_Witness ==
    /\ NonNegative(stats)
    /\ pc = "setHistorical"
    /\ ReducerWasCalled
    /\ \E k \in Elems(index) :
          /\ CutAt(matAtCall, mat, -additionAtCall, year - 1, k)
          /\ \E v \in Elems(index) : v < k /\ Held(matAtCall, v, year - 1) > 0
          /\ Held(mat, k, year - 1) > 0

====
